---- MODULE Spec2Model ----
(***************************************************************************)
(* Model of the Quip API client of quip-mcp (package quip): the transport  *)
(* helpers makeRequest / makeFormRequest and the per-operation decoding of *)
(* response bodies into Document values.                                   *)
(*                                                                         *)
(* A response body is a JSON text.  It is modelled by its parse: a tagged  *)
(* value (null, string, number, object, array) or "bad" for bytes that are *)
(* not JSON.  The decoders below follow encoding/json's typed decoding     *)
(* into the Go structs of the package: a missing key or a null leaves the  *)
(* zero value, an unknown key is ignored, and a value of the wrong JSON    *)
(* type is an error.  Of a Document the model keeps the string fields ID,  *)
(* Type, Title and HTML; object keys are taken in the spelling of the json *)
(* tags.                                                                   *)
(*                                                                         *)
(* One call is modelled from its invocation to its return: an operation's  *)
(* action draws the arguments and the outcome of the HTTP round trip, and  *)
(* records the request sent and the value or error returned; Return hands  *)
(* the result to the caller and forgets the call's locals.                 *)
(*                                                                         *)
(* Besides the client used alone (Spec) the module holds six more          *)
(* specifications over the same variables: formatTimestamp applied to a    *)
(* timestamp (SpecFormat), the tool handlers of package server with the    *)
(* HTTP exchanges each invocation makes (SpecTools), several goroutines    *)
(* calling one client (SpecConc), the ConfigManager of package config      *)
(* with the environment and the config file (SpecConfig), the line         *)
(* clean-up of htmlToMarkdown (SpecMarkdown) and maskToken (SpecMask).     *)
(* Each of them leaves the variables of the others at their initial        *)
(* values.                                                                 *)
(***************************************************************************)
EXTENDS Integers, Sequences, FiniteSets, TLC

VARIABLES
    client,   \* the Client struct: token, baseURL (fixed by NewClient)
    op,       \* the operation last invoked and its arguments
    req,      \* the HTTP request that operation sent
    resp,     \* what the round trip produced: transport failure, or status and body
    ret,      \* what the operation returned: a value or an error
    closed,   \* how often the response's body was closed, and by whom
    fmtIn,    \* formatTimestamp: the timestamp passed in
    fmtOut,   \* formatTimestamp: the string returned
    call,     \* the tool invoked on the MCP server and its arguments
    sent,     \* the HTTP exchanges of that invocation, in the order they were made
    out,      \* the tool result the handler returned
    conc,     \* concurrent callers of one client: each caller's call in progress
    env,      \* the value of the environment variable QUIP_API_TOKEN ("" when unset)
    file,     \* the config file at the ConfigManager's path
    cfgOut,   \* what the last call of the ConfigManager returned
    saved,    \* the token of the last Save that returned no error, if any
    mdIn,     \* htmlToMarkdown: the markdown text the line clean-up starts from
    mdOut,    \* htmlToMarkdown: the text returned
    maskIn,   \* maskToken: the token passed in
    maskOut   \* maskToken: the string returned

fmtVars == <<fmtIn, fmtOut>>

toolVars == <<call, sent, out>>

cfgVars == <<env, file, cfgOut, saved>>

textVars == <<mdIn, mdOut, maskIn, maskOut>>

\* the variables that the operations of the client leave alone
notClientVars == <<fmtVars, toolVars, conc, cfgVars, textVars>>

\* the variables that the tool handlers leave alone
notToolVars == <<client, op, req, resp, ret, closed, fmtVars, conc, cfgVars, textVars>>

\* the variables that formatTimestamp leaves alone
notFormatVars == <<client, op, req, resp, ret, closed, fmtIn, toolVars, conc, cfgVars, textVars>>

\* the variables that concurrent callers leave alone
notConcVars == <<op, req, resp, ret, closed, fmtVars, toolVars, cfgVars, textVars>>

\* the variables that the ConfigManager leaves alone
notConfigVars == <<client, op, req, resp, ret, closed, fmtVars, toolVars, conc, textVars>>

\* the variables that htmlToMarkdown leaves alone
notMarkdownVars == <<client, op, req, resp, ret, closed, fmtVars, toolVars, conc, cfgVars,
                     mdIn, maskIn, maskOut>>

\* the variables that maskToken leaves alone
notMaskVars == <<client, op, req, resp, ret, closed, fmtVars, toolVars, conc, cfgVars,
                 mdIn, mdOut, maskIn>>

vars == <<client, op, req, resp, ret, closed, fmtVars, toolVars, conc, cfgVars, textVars>>

----------------------------------------------------------------------------
(* Bounds of the model *)

\* longest JSON array, and most entries of a JSON mapping, in a response body
MaxLen == 2

\* formatTimestamp is applied to every timestamp of -MaxSmall..MaxSmall, and to
\* the timestamps within MaxNear of a whole number of seconds
MaxSmall == 40
MaxNear  == 2

\* the number of goroutines that call one client at the same time
NCallers == 2

\* the longest token of the environment or the config file
MaxToken == 11

----------------------------------------------------------------------------
(* JSON values *)

Absent  == [k |-> "absent", v |-> "-"]    \* the key is not in the object
JNull   == [k |-> "null",   v |-> "-"]
JBad    == [k |-> "bad",    v |-> "-"]    \* bytes that are not a JSON text
JInt(n) == [k |-> "num", v |-> n]
JNum    == JInt(7)
JStr(s) == [k |-> "str", v |-> s]
JObj(f) == [k |-> "obj", v |-> f]
JArr(a) == [k |-> "arr", v |-> a]

EmptyObj == [x \in {} |-> Absent]

\* the one-key object {key: val}, or the empty object when val is Absent
Opt(key, val) == IF val = Absent THEN EmptyObj ELSE (key :> val)

\* the value of member `key` of the JSON object j
Member(j, key) == IF key \in DOMAIN j.v THEN j.v[key] ELSE Absent

----------------------------------------------------------------------------
(* Typed decoding, as encoding/json does it *)

\* type Document struct (the fields the operations and tools read)
ZeroDocument == [ID |-> "", Type |-> "", Title |-> "", HTML |-> ""]

\* a JSON value decoded into a Go string field
DecString(j) ==
    CASE j.k \in {"absent", "null"} -> [ok |-> TRUE, val |-> ""]
      [] j.k = "str"                -> [ok |-> TRUE, val |-> j.v]
      [] OTHER                      -> [ok |-> FALSE, val |-> ""]

\* a JSON value decoded into a Document
DecDocument(j) ==
    CASE j.k \in {"absent", "null"} -> [ok |-> TRUE, val |-> ZeroDocument]
      [] j.k = "obj" ->
            LET id    == DecString(Member(j, "id"))
                type  == DecString(Member(j, "type"))
                title == DecString(Member(j, "title"))
                html  == DecString(Member(j, "html"))
            IN  [ok  |-> id.ok /\ type.ok /\ title.ok /\ html.ok,
                 val |-> [ID |-> id.val, Type |-> type.val,
                          Title |-> title.val, HTML |-> html.val]]
      [] OTHER -> [ok |-> FALSE, val |-> ZeroDocument]

\* a JSON value decoded into a Go int64 field
DecInt64(j) ==
    CASE j.k \in {"absent", "null"} -> [ok |-> TRUE, val |-> 0]
      [] j.k = "num"                -> [ok |-> TRUE, val |-> j.v]
      [] OTHER                      -> [ok |-> FALSE, val |-> 0]

\* type User struct (the fields the tools read); Created and Updated are in
\* seconds
ZeroUser == [ID |-> "", Name |-> "", Created |-> 0, Updated |-> 0]

\* a JSON value decoded into a User
DecUser(j) ==
    CASE j.k \in {"absent", "null"} -> [ok |-> TRUE, val |-> ZeroUser]
      [] j.k = "obj" ->
            LET id      == DecString(Member(j, "id"))
                name    == DecString(Member(j, "name"))
                created == DecInt64(Member(j, "created"))
                updated == DecInt64(Member(j, "updated"))
            IN  [ok  |-> id.ok /\ name.ok /\ created.ok /\ updated.ok,
                 val |-> [ID |-> id.val, Name |-> name.val,
                          Created |-> created.val, Updated |-> updated.val]]
      [] OTHER -> [ok |-> FALSE, val |-> ZeroUser]

\* type Comment struct (the fields the tools read); Created is in microseconds
ZeroComment == [ID |-> "", Text |-> "", AuthorID |-> "", Created |-> 0]

\* a JSON value decoded into a Comment
DecComment(j) ==
    CASE j.k \in {"absent", "null"} -> [ok |-> TRUE, val |-> ZeroComment]
      [] j.k = "obj" ->
            LET id      == DecString(Member(j, "id"))
                text    == DecString(Member(j, "text"))
                author  == DecString(Member(j, "author_id"))
                created == DecInt64(Member(j, "created_usec"))
            IN  [ok  |-> id.ok /\ text.ok /\ author.ok /\ created.ok,
                 val |-> [ID |-> id.val, Text |-> text.val,
                          AuthorID |-> author.val, Created |-> created.val]]
      [] OTHER -> [ok |-> FALSE, val |-> ZeroComment]

\* a JSON value decoded into []Comment
DecComments(j) ==
    CASE j.k = "null" -> [ok |-> TRUE, val |-> <<>>]
      [] j.k = "arr" ->
            [ok  |-> \A i \in DOMAIN j.v : DecComment(j.v[i]).ok,
             val |-> [i \in DOMAIN j.v |-> DecComment(j.v[i]).val]]
      [] OTHER -> [ok |-> FALSE, val |-> <<>>]

\* type RecentThreadData struct: the {thread, html, ...} wrapper
ZeroRecentThreadData == [Thread |-> ZeroDocument, HTML |-> ""]

DecRecentThreadData(j) ==
    CASE j.k \in {"absent", "null"} -> [ok |-> TRUE, val |-> ZeroRecentThreadData]
      [] j.k = "obj" ->
            LET thread == DecDocument(Member(j, "thread"))
                html   == DecString(Member(j, "html"))
            IN  [ok  |-> thread.ok /\ html.ok,
                 val |-> [Thread |-> thread.val, HTML |-> html.val]]
      [] OTHER -> [ok |-> FALSE, val |-> ZeroRecentThreadData]

\* a JSON value decoded into []Document
DecDocuments(j) ==
    CASE j.k = "null" -> [ok |-> TRUE, val |-> <<>>]
      [] j.k = "arr" ->
            [ok  |-> \A i \in DOMAIN j.v : DecDocument(j.v[i]).ok,
             val |-> [i \in DOMAIN j.v |-> DecDocument(j.v[i]).val]]
      [] OTHER -> [ok |-> FALSE, val |-> <<>>]

\* type SearchResponse struct: the {thread} wrapper
DecSearchResponse(j) ==
    CASE j.k \in {"absent", "null"} -> [ok |-> TRUE, val |-> [Thread |-> ZeroDocument]]
      [] j.k = "obj" ->
            LET thread == DecDocument(Member(j, "thread"))
            IN  [ok |-> thread.ok, val |-> [Thread |-> thread.val]]
      [] OTHER -> [ok |-> FALSE, val |-> [Thread |-> ZeroDocument]]

\* a JSON value decoded into []SearchResponse
DecSearchResponses(j) ==
    CASE j.k = "null" -> [ok |-> TRUE, val |-> <<>>]
      [] j.k = "arr" ->
            [ok  |-> \A i \in DOMAIN j.v : DecSearchResponse(j.v[i]).ok,
             val |-> [i \in DOMAIN j.v |-> DecSearchResponse(j.v[i]).val]]
      [] OTHER -> [ok |-> FALSE, val |-> <<>>]

\* a JSON value decoded into RecentThreadsResponse, a map[string]RecentThreadData;
\* val is the map, a function from the object's keys
DecRecentThreadsResponse(j) ==
    CASE j.k = "null" -> [ok |-> TRUE, val |-> EmptyObj]
      [] j.k = "obj" ->
            [ok  |-> \A key \in DOMAIN j.v : DecRecentThreadData(j.v[key]).ok,
             val |-> [key \in DOMAIN j.v |-> DecRecentThreadData(j.v[key]).val]]
      [] OTHER -> [ok |-> FALSE, val |-> EmptyObj]

----------------------------------------------------------------------------
(* Results of an operation: (value, nil) or (nil, error) *)

Nil == "nil"

RetOk(v) == [kind |-> "ok", val |-> v, status |-> 0, body |-> Absent]

\* an error of the given kind; an API error carries the status and the body
\* text, the "unrecognized response format" decode error carries the body
RetErr(kind, status, body) == [kind |-> kind, val |-> Nil, status |-> status, body |-> body]

DecodeErr == RetErr("decode", 0, Absent)

ReadErr == RetErr("read", 0, Absent)

\* the text of the underlying error that %w wraps
Cause == "<cause>"

\* the message of an error, by the fmt.Errorf call that built it: the pieces of
\* the format string and its arguments, in order
ErrorString(e) ==
    CASE e.kind = "transport" -> <<"failed to make request: ", Cause>>
      [] e.kind = "api"       -> <<"API error ", e.status, ": ", e.body>>
      [] e.kind = "read"      -> <<"failed to read response body: ", Cause>>
      [] e.kind = "decode" /\ e.body = Absent -> <<"failed to decode response: ", Cause>>
      [] e.kind = "decode" ->
            <<"failed to decode response: unrecognized response format. Response body: ",
              e.body>>
      [] OTHER -> <<>>

----------------------------------------------------------------------------
(* The transport *)

BaseURL == "https://platform.quip.com/1"

\* the timeout of the client's http.Client, in seconds
Timeout == 30

\* the part of a body that was read before the read failed
Partial == [k |-> "partial", v |-> "-"]

\* bodyBytes, _ := io.ReadAll(resp.Body): what was read, the error dropped
ReadSoFar(r) == IF r.readFail THEN Partial ELSE r.body

\* makeRequest with the error body parsed and its "error" member reported
makeRequest_ParsedBody(r) ==
    IF r.fail THEN RetErr("transport", 0, Absent)
    ELSE IF r.status >= 400
         THEN RetErr("api", r.status,
                     IF ReadSoFar(r).k = "obj" THEN Member(ReadSoFar(r), "error")
                     ELSE ReadSoFar(r))
    ELSE RetOk(r)

\* the outcome of httpClient.Do followed by the status test of makeRequest:
\* (nil, error) or the response handed to the caller
makeRequest(r) ==
    IF r.fail THEN RetErr("transport", 0, Absent)
    ELSE IF r.status >= 400 THEN RetErr("api", r.status, ReadSoFar(r))
    ELSE RetOk(r)

\* makeFormRequest differs from makeRequest in the request it builds only
makeFormRequest(r) ==
    IF r.fail THEN RetErr("transport", 0, Absent)
    ELSE IF r.status >= 400 THEN RetErr("api", r.status, ReadSoFar(r))
    ELSE RetOk(r)

\* no response, so no body to close
NoCloses == [transport |-> 0, caller |-> 0]

\* makeRequest and makeFormRequest leaving the body of an error response open
TransportCloses_Leak(r) == 0

\* the closes of the body by makeRequest and makeFormRequest: the deferred
\* Close in the branch of a status of 400 or more
TransportCloses(r) == IF ~r.fail /\ r.status >= 400 THEN 1 ELSE 0

\* the closes of the body by the operation: the Close it defers once the
\* transport has handed it a response; t is what the transport returned
CallerCloses(t) == IF t.kind = "ok" THEN 1 ELSE 0

\* the closes of the body in one call of an operation
BodyCloses(r) == [transport |-> TransportCloses(r), caller |-> CallerCloses(makeRequest(r))]

JSONRequest(method, path) ==
    [method |-> method, path |-> path, ctype |-> "application/json",
     auth |-> <<"Bearer ", client.token>>, base |-> client.baseURL, form |-> EmptyObj]

FormRequest(method, path, formData) ==
    [method |-> method, path |-> path, ctype |-> "application/x-www-form-urlencoded",
     auth |-> <<"Bearer ", client.token>>, base |-> client.baseURL, form |-> formData]

\* the request of each operation
GetCurrentUserRequest == JSONRequest("GET", <<"/users/current">>)

GetUserRequest(userID) == JSONRequest("GET", <<"/users/", userID>>)

SearchDocumentsRequest(query, limit) ==
    JSONRequest("GET", IF limit > 0
                       THEN <<"/threads/search?query=", query, "&count=", limit>>
                       ELSE <<"/threads/search?query=", query>>)

GetDocumentRequest(id) == JSONRequest("GET", <<"/threads/", id>>)

GetDocumentCommentsRequest(id) == JSONRequest("GET", <<"/threads/", id, "/messages">>)

GetRecentThreadsRequest(limit) ==
    JSONRequest("GET", IF limit > 0 THEN <<"/threads/recent", "?count=", limit>>
                       ELSE <<"/threads/recent">>)

DeleteDocumentRequest(id) ==
    FormRequest("POST", <<"/threads/delete">>, ("thread_id" :> id) @@ ("wipeout" :> "false"))

----------------------------------------------------------------------------
(* Decoding of a successful response, per operation *)

\* GetDocument with the sideband html copied over thread.html unconditionally
GetDocumentDecode_AlwaysSideband(body) ==
    LET response == DecRecentThreadData(body)
        doc      == DecDocument(body)
    IN  IF response.ok /\ response.val.Thread.ID # ""
        THEN RetOk([response.val.Thread EXCEPT !.HTML = response.val.HTML])
        ELSE IF ~doc.ok THEN DecodeErr ELSE RetOk(doc.val)

\* GetDocument: the {thread, html} wrapper first, then the bare Document
GetDocumentDecode(body) ==
    LET response == DecRecentThreadData(body)
        doc      == DecDocument(body)
    IN  IF response.ok /\ response.val.Thread.ID # ""
        THEN RetOk(IF response.val.HTML # ""
                   THEN [response.val.Thread EXCEPT !.HTML = response.val.HTML]
                   ELSE response.val.Thread)
        ELSE IF ~doc.ok THEN DecodeErr ELSE RetOk(doc.val)

\* EditDocument: the wrapper first (its html sideband is not used), then the
\* bare Document
EditDocumentDecode(body) ==
    LET response == DecRecentThreadData(body)
        doc      == DecDocument(body)
    IN  IF response.ok /\ response.val.Thread.ID # ""
        THEN RetOk(response.val.Thread)
        ELSE IF ~doc.ok THEN DecodeErr ELSE RetOk(doc.val)

\* CreateDocument: the wrapper only
CreateDocumentDecode(body) ==
    LET response == DecRecentThreadData(body)
    IN  IF ~response.ok THEN DecodeErr ELSE RetOk(response.val.Thread)

\* the orders in which a range over the map decoded from `body` can visit its
\* keys (Go leaves the iteration order of a map unspecified)
Perms(S) == {f \in [1..Cardinality(S) -> S] : \A i, j \in DOMAIN f : f[i] = f[j] => i = j}

MapOrders(body) == IF body.k = "obj" THEN Perms(DOMAIN body.v) ELSE {<<>>}

\* GetRecentThreads with the []SearchResponse candidate tried before []Document
GetRecentThreadsDecode_WrappersFirst(body, order) ==
    LET response        == DecRecentThreadsResponse(body)
        threads         == DecDocuments(body)
        searchResponses == DecSearchResponses(body)
    IN  IF response.ok /\ Cardinality(DOMAIN response.val) > 0
        THEN RetOk([i \in DOMAIN order |-> response.val[order[i]].Thread])
        ELSE IF searchResponses.ok
             THEN RetOk([i \in DOMAIN searchResponses.val |-> searchResponses.val[i].Thread])
        ELSE IF threads.ok THEN RetOk(threads.val)
        ELSE RetErr("decode", 0, body)

\* GetRecentThreads taking the key -> wrapper map also when it has no entries
GetRecentThreadsDecode_EmptyMap(body, order) ==
    LET response        == DecRecentThreadsResponse(body)
        threads         == DecDocuments(body)
        searchResponses == DecSearchResponses(body)
    IN  IF response.ok
        THEN RetOk([i \in DOMAIN order |-> response.val[order[i]].Thread])
        ELSE IF threads.ok THEN RetOk(threads.val)
        ELSE IF searchResponses.ok
             THEN RetOk([i \in DOMAIN searchResponses.val |-> searchResponses.val[i].Thread])
        ELSE RetErr("decode", 0, body)

\* GetRecentThreads: the key -> wrapper map when it is not empty, visited in
\* `order`; then []Document; then []SearchResponse
GetRecentThreadsDecode(body, order) ==
    LET response        == DecRecentThreadsResponse(body)
        threads         == DecDocuments(body)
        searchResponses == DecSearchResponses(body)
    IN  IF response.ok /\ Cardinality(DOMAIN response.val) > 0
        THEN RetOk([i \in DOMAIN order |-> response.val[order[i]].Thread])
        ELSE IF threads.ok THEN RetOk(threads.val)
        ELSE IF searchResponses.ok
             THEN RetOk([i \in DOMAIN searchResponses.val |-> searchResponses.val[i].Thread])
        ELSE RetErr("decode", 0, body)

\* type SearchResult struct; a Go slice is its elements and whether it is nil
SearchResult(documents) ==
    [Documents |-> documents, Users |-> [isNil |-> FALSE, items |-> <<>>], NextCursor |-> ""]

\* SearchDocuments appending to the slice it has already sized with make
SearchDocumentsDecode_Appended(body) ==
    LET apiResponse == DecSearchResponses(body)
    IN  IF ~apiResponse.ok THEN DecodeErr
        ELSE RetOk(SearchResult([i \in DOMAIN apiResponse.val |-> ZeroDocument]
                                \o [i \in DOMAIN apiResponse.val |-> apiResponse.val[i].Thread]))

\* SearchDocuments: []SearchResponse only
SearchDocumentsDecode(body) ==
    LET apiResponse == DecSearchResponses(body)
    IN  IF ~apiResponse.ok THEN DecodeErr
        ELSE RetOk(SearchResult([i \in DOMAIN apiResponse.val |-> apiResponse.val[i].Thread]))

\* the operation name compared without regard to case
EditLocation_FoldCase(operation) ==
    IF operation \in {"PREPEND", "prepend", "Prepend"} THEN "1" ELSE "0"

\* EditDocument: the operation name as the `location` form field
EditLocation(operation) ==
    IF operation = "REPLACE" \/ operation = "" THEN "0"
    ELSE IF operation = "APPEND" THEN "0"
    ELSE IF operation = "PREPEND" THEN "1"
    ELSE "0"

\* EditDocument: the `format` form field
EditFormat(format) == IF format # "" THEN format ELSE "markdown"

CreateDocumentRequest(title, content) ==
    FormRequest("POST", <<"/threads/new-document">>,
                ("title" :> title) @@ ("content" :> content) @@ ("format" :> "markdown"))

EditDocumentRequest(id, content, operation, format) ==
    FormRequest("POST", <<"/threads/edit-document">>,
                ("thread_id" :> id) @@ ("content" :> content)
                    @@ ("location" :> EditLocation(operation))
                    @@ ("format" :> EditFormat(format)))

----------------------------------------------------------------------------
(* formatTimestamp (package server).  A Go string is the sequence of its    *)
(* characters.                                                              *)

MicrosPerSecond == 1000000

\* Go's integer division truncates toward zero
Quo(a, b) == IF a >= 0 THEN a \div b ELSE -((-a) \div b)

DigitChars == <<"0", "1", "2", "3", "4", "5", "6", "7", "8", "9">>

RECURSIVE Digits(_)
Digits(n) == IF n < 10 THEN <<DigitChars[n + 1]>>
             ELSE Digits(n \div 10) \o <<DigitChars[(n % 10) + 1]>>

\* strconv.FormatInt(n, 10)
FormatInt(n) == IF n < 0 THEN <<"-">> \o Digits(-n) ELSE Digits(n)

Unknown == <<"U", "n", "k", "n", "o", "w", "n">>

\* formatTimestamp with a division that rounds toward minus infinity
formatTimestamp_Floor(timestamp) ==
    IF timestamp = 0 THEN Unknown
    ELSE FormatInt(timestamp \div MicrosPerSecond)

formatTimestamp(timestamp) ==
    IF timestamp = 0 THEN Unknown
    ELSE LET seconds == Quo(timestamp, MicrosPerSecond) IN FormatInt(seconds)

----------------------------------------------------------------------------
(* The operations as functions of the round trip's outcome *)

\* GetDocument, EditDocument, CreateDocument and GetRecentThreads read the
\* whole body with io.ReadAll and decode the bytes
GetDocumentResult(r) ==
    LET t == makeRequest(r)
    IN  IF t.kind # "ok" THEN t
        ELSE IF r.readFail THEN ReadErr
        ELSE GetDocumentDecode(r.body)

EditDocumentResult(r) ==
    LET t == makeFormRequest(r)
    IN  IF t.kind # "ok" THEN t
        ELSE IF r.readFail THEN ReadErr
        ELSE EditDocumentDecode(r.body)

CreateDocumentResult(r) ==
    LET t == makeFormRequest(r)
    IN  IF t.kind # "ok" THEN t
        ELSE IF r.readFail THEN ReadErr
        ELSE CreateDocumentDecode(r.body)

GetRecentThreadsResult(r, order) ==
    LET t == makeRequest(r)
    IN  IF t.kind # "ok" THEN t
        ELSE IF r.readFail THEN ReadErr
        ELSE GetRecentThreadsDecode(r.body, order)

\* SearchDocuments, GetCurrentUser, GetUser and GetDocumentComments decode from
\* the body stream (json.NewDecoder(resp.Body).Decode): a read that fails
\* surfaces as the error of Decode
SearchDocumentsResult(r) ==
    LET t == makeRequest(r)
    IN  IF t.kind # "ok" THEN t
        ELSE IF r.readFail THEN DecodeErr
        ELSE SearchDocumentsDecode(r.body)

UserDecode(body) ==
    LET user == DecUser(body) IN IF ~user.ok THEN DecodeErr ELSE RetOk(user.val)

GetCurrentUserResult(r) ==
    LET t == makeRequest(r)
    IN  IF t.kind # "ok" THEN t
        ELSE IF r.readFail THEN DecodeErr
        ELSE UserDecode(r.body)

GetUserResult(r) ==
    LET t == makeRequest(r)
    IN  IF t.kind # "ok" THEN t
        ELSE IF r.readFail THEN DecodeErr
        ELSE UserDecode(r.body)

GetDocumentCommentsDecode(body) ==
    LET comments == DecComments(body)
    IN  IF ~comments.ok THEN DecodeErr ELSE RetOk(comments.val)

GetDocumentCommentsResult(r) ==
    LET t == makeRequest(r)
    IN  IF t.kind # "ok" THEN t
        ELSE IF r.readFail THEN DecodeErr
        ELSE GetDocumentCommentsDecode(r.body)

\* DeleteDocument never reads the body: any response below 400 is success
DeleteDocumentResult(r) ==
    LET t == makeFormRequest(r) IN IF t.kind # "ok" THEN t ELSE RetOk(Nil)

----------------------------------------------------------------------------
(* Inputs: arguments and response bodies *)

Tokens      == {"tok-1234567890"}
DocIds      == {"d1", "d2"}
Contents    == {"text"}
Queries     == {"q"}
UserIds     == {"u1"}
Limits      == {0, 5}
Operations  == {"REPLACE", "APPEND", "PREPEND", "", "prepend", "Prepend", "INSERT"}
Formats     == {"", "html"}

\* JSON objects {"id": .., "title": .., "type": ..}: the elements of list bodies
ListDocs ==
    {JObj(("id" :> JStr(i)) @@ ("title" :> JStr(tt[1])) @@ ("type" :> JStr(tt[2]))) :
        i \in {"", "d1", "d2"}, tt \in {<<"T1", "document">>, <<"T2", "spreadsheet">>}}

\* what an element of a JSON array body can be: a bare Document, a {thread}
\* wrapper, or something that is neither
ListElems ==
    ListDocs
    \cup {JObj("thread" :> d) : d \in ListDocs}
    \cup {JNull, JStr("x"),
          JObj("id" :> JNum),
          JObj("thread" :> JStr("x")),
          JObj(("id" :> JStr("d2")) @@ ("thread" :> JObj("id" :> JStr("d1"))))}

\* what a value of a JSON mapping body can be: a {thread, html} wrapper, or not
MapElems ==
    {JObj(("thread" :> JObj(("id" :> JStr(it[1])) @@ ("title" :> JStr(it[2])) @@ Opt("html", h)))
          @@ Opt("html", side)) :
        it \in {<<"", "T1">>, <<"d1", "T1">>, <<"d2", "T2">>},
        h \in {Absent, JStr("h1")}, side \in {Absent, JStr("h2")}}
    \cup {JStr("x"), JObj(("thread" :> JObj("id" :> JStr("d1"))) @@ ("html" :> JNum))}

KeyNames   == <<"key1", "key2", "key3", "key4">>
MapKeys(n) == {KeyNames[i] : i \in 1..n}

\* bodies answered to the list operations
ListBodies ==
    {JBad, JNull, JStr("x")}
    \cup {JArr(a) : a \in UNION {[1..n -> ListElems] : n \in 0..MaxLen}}
    \cup {JObj(f) : f \in UNION {[MapKeys(n) -> MapElems] : n \in 0..MaxLen}}

\* bodies answered to the single-document operations: a JSON object with any
\* of the members thread, html, id, title, or no object at all
SingleBodies ==
    {JBad, JNull, JArr(<<>>)}
    \cup {JObj(Opt("thread", th) @@ Opt("html", side) @@ Opt("id", id) @@ Opt("title", t)) :
            th \in {Absent, JStr("x")}
                   \cup {JObj(Opt("id", i) @@ ("title" :> JStr("T1")) @@ Opt("html", h)) :
                            i \in {Absent, JStr(""), JStr("d1"), JNum},
                            h \in {Absent, JStr(""), JStr("h1")}},
            side \in {Absent, JStr(""), JStr("h2"), JNum},
            id \in {Absent, JStr(""), JStr("d2")},
            t \in {Absent, JStr("T2")}}

\* bodies sent with a status other than 200
OtherBodies ==
    {JBad,
     JObj("error" :> JStr("Invalid token")),
     JObj("thread" :> JObj(("id" :> JStr("d1")) @@ ("title" :> JStr("T1"))))}

\* bodies of /users/{id}: created and updated are in seconds
UserBodies ==
    {JBad, JNull, JObj(EmptyObj), JArr(<<>>)}
    \cup {JObj(Opt("id", id) @@ Opt("name", JStr("Ann")) @@ Opt("created", c)
                @@ Opt("updated", u)) :
            id \in {Absent, JStr("u1")},
            c \in {Absent, JInt(0), JInt(1640995200), JStr("x")},
            u \in {Absent, JInt(1640995300)}}

\* bodies of /threads/{id}/messages
CommentElems ==
    {JNull, JStr("x")}
    \cup {JObj(Opt("id", JStr(i)) @@ Opt("text", JStr("hi")) @@ Opt("author_id", JStr("u1"))
                @@ Opt("created_usec", c)) :
            i \in {"c1", "c2"}, c \in {Absent, JInt(1640995200)}}

CommentBodies ==
    {JBad, JNull, JObj(EmptyObj)}
    \cup {JArr(a) : a \in UNION {[1..n -> CommentElems] : n \in 0..MaxLen}}

Statuses == {200, 201, 304, 400, 401, 404, 500}

\* the outcomes of one round trip: no response at all, or a status and a body;
\* readFail: the body breaks off before its end when it is read
Responses(bodies) ==
    {[fail |-> TRUE, status |-> 0, body |-> Absent, readFail |-> FALSE]}
    \cup {[fail |-> FALSE, status |-> 200, body |-> b, readFail |-> FALSE] : b \in bodies}
    \cup {[fail |-> FALSE, status |-> st, body |-> b, readFail |-> FALSE] :
            st \in Statuses \ {200}, b \in OtherBodies}
    \cup {[fail |-> FALSE, status |-> st, body |-> b, readFail |-> TRUE] :
            st \in Statuses, b \in OtherBodies}

NoCall == [name |-> "none", args |-> <<>>]
NoReq  == [method |-> "", path |-> <<>>, ctype |-> "", auth |-> <<>>, base |-> "", form |-> EmptyObj]
NoResp == [fail |-> FALSE, status |-> 0, body |-> Absent, readFail |-> FALSE]
NoRet  == [kind |-> "none", val |-> Nil, status |-> 0, body |-> Absent]

\* formatTimestamp has not been applied
NotFormatted == <<>>
NoFormat     == fmtIn = 0 /\ fmtOut = NotFormatted

\* no tool has been invoked
NoTool     == [tool |-> "none", args |-> EmptyObj]
NoOut      == [isError |-> FALSE, text |-> <<>>]
NoToolCall == call = NoTool /\ sent = <<>> /\ out = NoOut

\* no goroutine calls the client
Callers    == 1..NCallers
IdleCaller == [pc |-> "idle", op |-> NoCall, req |-> NoReq, resp |-> NoResp, ret |-> NoRet,
               exchanges |-> 0]
NoConc     == conc = [c \in Callers |-> IdleCaller]

\* the ConfigManager has not been called; a Go string of the config package is
\* the sequence of its characters
MissingFile == [state |-> "missing", token |-> <<>>]
NoCfgOut    == [op |-> "none", err |-> FALSE, token |-> <<>>]
NeverSaved  == <<"<never saved>">>
NoConfig    == env = <<>> /\ file = MissingFile /\ cfgOut = NoCfgOut /\ saved = NeverSaved

\* neither htmlToMarkdown nor maskToken has been applied
NotDone == [done |-> FALSE, text |-> <<>>]
NoText  == mdIn = <<>> /\ mdOut = NotDone /\ maskIn = <<>> /\ maskOut = NotDone

\* nothing but the client's own operations is in use
ClientOnly == NoFormat /\ NoToolCall /\ NoConc /\ NoConfig /\ NoText

----------------------------------------------------------------------------
(* The state machine *)

\* NewClient(token)
NewClient == client \in {[token |-> t, baseURL |-> BaseURL, timeout |-> Timeout] : t \in Tokens}

\* no operation of the client has been invoked
NoClientCall == op = NoCall /\ req = NoReq /\ resp = NoResp /\ ret = NoRet /\ closed = NoCloses

Init ==
    /\ NewClient
    /\ NoClientCall
    /\ ClientOnly

\* no call is in progress: the last one has returned to its caller
Idle == op = NoCall

\* the caller takes the result; the call's locals (request, response, result)
\* are gone, the client stays as it is
Return ==
    /\ ~Idle
    /\ op' = NoCall
    /\ req' = NoReq
    /\ resp' = NoResp
    /\ ret' = NoRet
    /\ closed' = NoCloses
    /\ UNCHANGED <<client, notClientVars>>

GetDocument ==
    /\ Idle
    /\ \E id \in DocIds, r \in Responses(SingleBodies) :
        /\ op' = [name |-> "GetDocument", args |-> <<id>>]
        /\ req' = GetDocumentRequest(id)
        /\ resp' = r
        /\ ret' = GetDocumentResult(r)
        /\ closed' = BodyCloses(r)
        /\ UNCHANGED <<client, notClientVars>>

CreateDocument ==
    /\ Idle
    /\ \E title \in {"T1"}, content \in Contents, r \in Responses(SingleBodies) :
        /\ op' = [name |-> "CreateDocument", args |-> <<title, content>>]
        /\ req' = CreateDocumentRequest(title, content)
        /\ resp' = r
        /\ ret' = CreateDocumentResult(r)
        /\ closed' = BodyCloses(r)
        /\ UNCHANGED <<client, notClientVars>>

EditDocument ==
    /\ Idle
    /\ \E id \in DocIds, content \in Contents, operation \in Operations, format \in Formats,
       r \in Responses(SingleBodies) :
        /\ op' = [name |-> "EditDocument", args |-> <<id, content, operation, format>>]
        /\ req' = EditDocumentRequest(id, content, operation, format)
        /\ resp' = r
        /\ ret' = EditDocumentResult(r)
        /\ closed' = BodyCloses(r)
        /\ UNCHANGED <<client, notClientVars>>

GetRecentThreads ==
    /\ Idle
    /\ \E limit \in Limits, r \in Responses(ListBodies) :
        \E order \in MapOrders(r.body) :
            /\ op' = [name |-> "GetRecentThreads", args |-> <<limit>>]
            /\ req' = GetRecentThreadsRequest(limit)
            /\ resp' = r
            /\ ret' = GetRecentThreadsResult(r, order)
            /\ closed' = BodyCloses(r)
            /\ UNCHANGED <<client, notClientVars>>

SearchDocuments ==
    /\ Idle
    /\ \E query \in Queries, limit \in Limits, r \in Responses(ListBodies) :
        /\ op' = [name |-> "SearchDocuments", args |-> <<query, limit>>]
        /\ req' = SearchDocumentsRequest(query, limit)
        /\ resp' = r
        /\ ret' = SearchDocumentsResult(r)
        /\ closed' = BodyCloses(r)
        /\ UNCHANGED <<client, notClientVars>>

GetCurrentUser ==
    /\ Idle
    /\ \E r \in Responses(UserBodies) :
        /\ op' = [name |-> "GetCurrentUser", args |-> <<>>]
        /\ req' = GetCurrentUserRequest
        /\ resp' = r
        /\ ret' = GetCurrentUserResult(r)
        /\ closed' = BodyCloses(r)
        /\ UNCHANGED <<client, notClientVars>>

GetUser ==
    /\ Idle
    /\ \E userID \in UserIds, r \in Responses(UserBodies) :
        /\ op' = [name |-> "GetUser", args |-> <<userID>>]
        /\ req' = GetUserRequest(userID)
        /\ resp' = r
        /\ ret' = GetUserResult(r)
        /\ closed' = BodyCloses(r)
        /\ UNCHANGED <<client, notClientVars>>

GetDocumentComments ==
    /\ Idle
    /\ \E id \in DocIds, r \in Responses(CommentBodies) :
        /\ op' = [name |-> "GetDocumentComments", args |-> <<id>>]
        /\ req' = GetDocumentCommentsRequest(id)
        /\ resp' = r
        /\ ret' = GetDocumentCommentsResult(r)
        /\ closed' = BodyCloses(r)
        /\ UNCHANGED <<client, notClientVars>>

DeleteDocument ==
    /\ Idle
    /\ \E id \in DocIds, r \in Responses(OtherBodies) :
        /\ op' = [name |-> "DeleteDocument", args |-> <<id>>]
        /\ req' = DeleteDocumentRequest(id)
        /\ resp' = r
        /\ ret' = DeleteDocumentResult(r)
        /\ closed' = BodyCloses(r)
        /\ UNCHANGED <<client, notClientVars>>

Next ==
    \/ GetDocument
    \/ CreateDocument
    \/ EditDocument
    \/ GetRecentThreads
    \/ SearchDocuments
    \/ GetCurrentUser
    \/ GetUser
    \/ GetDocumentComments
    \/ DeleteDocument
    \/ Return

Spec == Init /\ [][Next]_vars

----------------------------------------------------------------------------
(* formatTimestamp applied to a timestamp *)

\* the timestamps formatTimestamp is applied to
Timestamps ==
    (-MaxSmall..MaxSmall)
    \cup {sign * (k * MicrosPerSecond + d) :
            sign \in {-1, 1}, k \in {1, 2, 10, 1640, 2000}, d \in -MaxNear..MaxNear}
    \cup {sign * 1640995200 : sign \in {-1, 1}}

InitFormat ==
    /\ NewClient
    /\ NoClientCall
    /\ NoToolCall
    /\ NoConc
    /\ NoText
    /\ NoConfig
    /\ fmtIn \in Timestamps
    /\ fmtOut = NotFormatted

\* a handler formats a timestamp of the entity it reports
FormatTimestamp ==
    /\ fmtOut = NotFormatted
    /\ fmtOut' = formatTimestamp(fmtIn)
    /\ UNCHANGED notFormatVars

NextFormat == FormatTimestamp

SpecFormat == InitFormat /\ [][NextFormat]_vars

----------------------------------------------------------------------------
(* The tools of the MCP server (package server).  A handler is one action:  *)
(* it validates the arguments, calls the client, and returns a tool result. *)
(* Each call of a client operation is one HTTP exchange, logged in `sent`.  *)

\* the arguments of an invocation: a JSON value per name, Absent when missing
ArgOf(args, key) == IF key \in DOMAIN args THEN args[key] ELSE Absent

\* req.RequireString taking a number for its decimal string
RequireString_Lenient(args, key) ==
    IF ArgOf(args, key).k \in {"str", "num"} THEN [ok |-> TRUE, val |-> "7"]
    ELSE [ok |-> FALSE, val |-> ""]

\* req.RequireString(key): the argument must be there and be a string
RequireString(args, key) ==
    IF ArgOf(args, key).k = "str" THEN [ok |-> TRUE, val |-> ArgOf(args, key).v]
    ELSE [ok |-> FALSE, val |-> ""]

\* req.GetString(key, default)
GetString(args, key, default) ==
    IF ArgOf(args, key).k = "str" THEN ArgOf(args, key).v ELSE default

\* req.GetInt(key, default), for an argument that is a number or missing
GetInt(args, key, default) ==
    IF ArgOf(args, key).k = "num" THEN ArgOf(args, key).v ELSE default

DefaultLimit == 10

\* mcp.NewToolResultError, mcp.NewToolResultText
ToolError(text) == [isError |-> TRUE, text |-> text]
ToolText(text)  == [isError |-> FALSE, text |-> text]

\* the result for a required argument that is missing or not a string
InvalidArgument(key) == ToolError(<<"Invalid ", key, " argument: ", Cause>>)

\* a client error reported in a result that is not flagged as an error
Failed_AsText(what, e) == ToolText(<<"Failed to ", what, ": ", ErrorString(e)>>)

\* the result for a client operation that returned an error
Failed(what, e) == ToolError(<<"Failed to ", what, ": ", ErrorString(e)>>)

Exchange(request, r) == [req |-> request, resp |-> r]

\* a client that sends the request once more when the connection fails
RoundTrips_Retry(request, r) ==
    IF r.fail THEN <<Exchange(request, r), Exchange(request, r)>>
    ELSE <<Exchange(request, r)>>

\* the exchanges of one call of a client operation: makeRequest and
\* makeFormRequest call httpClient.Do once, whatever its outcome
RoundTrips(request, r) == <<Exchange(request, r)>>

\* the handler returns: the invocation, its exchanges and its result
Handled(tool, args, exchanges, result) ==
    /\ call' = [tool |-> tool, args |-> args]
    /\ sent' = exchanges
    /\ out' = result
    /\ UNCHANGED notToolVars

\* what the handlers print of the entities
DocumentLines(docs) == [i \in DOMAIN docs |-> <<i, docs[i].Title, docs[i].ID>>]

CommentLines(comments) ==
    [i \in DOMAIN comments |->
        <<i, comments[i].AuthorID, formatTimestamp(comments[i].Created), comments[i].Text>>]

\* argument values: a required string argument can be missing, null, a number,
\* or one of the strings given
StringArgs(strings) == {Absent, JNull, JNum} \cup {JStr(x) : x \in strings}

LimitArgs == {Absent, JInt(0), JInt(5)}

\* response bodies of the tools' calls
ToolDocBodies ==
    {JBad, JObj(EmptyObj),
     JObj(("id" :> JStr("d1")) @@ ("title" :> JStr("T1")) @@ ("html" :> JStr("h1"))),
     JObj(("thread" :> JObj(("id" :> JStr("d1")) @@ ("title" :> JStr("T1"))))
              @@ ("html" :> JStr("h2")))}

ToolListBodies ==
    {JBad, JNull, JObj(EmptyObj), JArr(<<>>),
     JArr(<<JObj(("id" :> JStr("d1")) @@ ("title" :> JStr("T1")))>>),
     JObj("key1" :> JObj("thread" :> JObj(("id" :> JStr("d1")) @@ ("title" :> JStr("T1")))))}

ToolUserBodies ==
    {JBad, JObj(EmptyObj),
     JObj(("id" :> JStr("u1")) @@ ("name" :> JStr("Ann")) @@ ("created" :> JInt(1640995200))
              @@ ("updated" :> JInt(1640995300)))}

ToolCommentBodies ==
    {JBad, JNull, JArr(<<>>),
     JArr(<<JObj(("id" :> JStr("c1")) @@ ("text" :> JStr("hi")) @@ ("author_id" :> JStr("u1"))
                     @@ ("created_usec" :> JInt(1640995200)))>>)}

InitTools ==
    /\ NewClient
    /\ NoClientCall
    /\ ClientOnly

\* the server has answered the invocation
ToolReturn ==
    /\ call # NoTool
    /\ call' = NoTool
    /\ sent' = <<>>
    /\ out' = NoOut
    /\ UNCHANGED notToolVars

search_documents ==
    /\ call = NoTool
    /\ \E q \in StringArgs(Queries), l \in LimitArgs, r \in Responses(ToolListBodies) :
        LET args   == ("query" :> q) @@ ("limit" :> l)
            query  == RequireString(args, "query")
            limit  == GetInt(args, "limit", DefaultLimit)
            result == SearchDocumentsResult(r)
        IN  IF ~query.ok
            THEN Handled("search_documents", args, <<>>, InvalidArgument("query"))
            ELSE Handled("search_documents", args,
                         RoundTrips(SearchDocumentsRequest(query.val, limit), r),
                         IF result.kind # "ok" THEN Failed("search documents", result)
                         ELSE ToolText(<<"Found ", Len(result.val.Documents), " documents:",
                                         DocumentLines(result.val.Documents)>>))

get_document ==
    /\ call = NoTool
    /\ \E d \in StringArgs(DocIds), r \in Responses(ToolDocBodies) :
        LET args       == "document_id" :> d
            documentID == RequireString(args, "document_id")
            doc        == GetDocumentResult(r)
        IN  IF ~documentID.ok
            THEN Handled("get_document", args, <<>>, InvalidArgument("document_id"))
            ELSE Handled("get_document", args,
                         RoundTrips(GetDocumentRequest(documentID.val), r),
                         IF doc.kind # "ok" THEN Failed("get document", doc)
                         ELSE ToolText(<<"**", doc.val.Title, "ID", doc.val.ID,
                                         "Type", doc.val.Type>>))

create_document ==
    /\ call = NoTool
    /\ \E t \in StringArgs({"T1"}), c \in StringArgs(Contents), r \in Responses(ToolDocBodies) :
        LET args    == ("title" :> t) @@ ("content" :> c)
            title   == RequireString(args, "title")
            content == GetString(args, "content", "")
            doc     == CreateDocumentResult(r)
        IN  IF ~title.ok
            THEN Handled("create_document", args, <<>>, InvalidArgument("title"))
            ELSE Handled("create_document", args,
                         RoundTrips(CreateDocumentRequest(title.val, content), r),
                         IF doc.kind # "ok" THEN Failed("create document", doc)
                         ELSE ToolText(<<"Document created successfully!",
                                         "Title", doc.val.Title, "ID", doc.val.ID>>))

get_user ==
    /\ call = NoTool
    /\ \E u \in StringArgs(UserIds \cup {"current"}), r \in Responses(ToolUserBodies) :
        LET args   == "user_id" :> u
            userID == RequireString(args, "user_id")
            user   == IF userID.val = "current" THEN GetCurrentUserResult(r)
                      ELSE GetUserResult(r)
        IN  IF ~userID.ok
            THEN Handled("get_user", args, <<>>, InvalidArgument("user_id"))
            ELSE Handled("get_user", args,
                         RoundTrips(IF userID.val = "current" THEN GetCurrentUserRequest
                                    ELSE GetUserRequest(userID.val), r),
                         IF user.kind # "ok" THEN Failed("get user", user)
                         ELSE ToolText(<<"**", user.val.Name, "ID", user.val.ID,
                                         "Created", formatTimestamp(user.val.Created),
                                         "Updated", formatTimestamp(user.val.Updated)>>))

get_document_comments ==
    /\ call = NoTool
    /\ \E d \in StringArgs(DocIds), r \in Responses(ToolCommentBodies) :
        LET args       == "document_id" :> d
            documentID == RequireString(args, "document_id")
            comments   == GetDocumentCommentsResult(r)
        IN  IF ~documentID.ok
            THEN Handled("get_document_comments", args, <<>>, InvalidArgument("document_id"))
            ELSE Handled("get_document_comments", args,
                         RoundTrips(GetDocumentCommentsRequest(documentID.val), r),
                         IF comments.kind # "ok" THEN Failed("get comments", comments)
                         ELSE IF Len(comments.val) = 0
                         THEN ToolText(<<"No comments found for this document.">>)
                         ELSE ToolText(<<"Found ", Len(comments.val), " comments:",
                                         CommentLines(comments.val)>>))

edit_document ==
    /\ call = NoTool
    /\ \E d \in StringArgs({"d1"}), c \in StringArgs(Contents),
          o \in {Absent, JStr("PREPEND"), JStr("append")}, f \in {Absent, JStr("markdown")},
          r \in Responses(ToolDocBodies) :
        LET args       == ("document_id" :> d) @@ ("content" :> c) @@ ("operation" :> o)
                              @@ ("format" :> f)
            documentID == RequireString(args, "document_id")
            content    == RequireString(args, "content")
            operation  == GetString(args, "operation", "REPLACE")
            format     == GetString(args, "format", "html")
            doc        == EditDocumentResult(r)
        IN  IF ~documentID.ok
            THEN Handled("edit_document", args, <<>>, InvalidArgument("document_id"))
            ELSE IF ~content.ok
            THEN Handled("edit_document", args, <<>>, InvalidArgument("content"))
            ELSE Handled("edit_document", args,
                         RoundTrips(EditDocumentRequest(documentID.val, content.val,
                                                        operation, format), r),
                         IF doc.kind # "ok" THEN Failed("edit document", doc)
                         ELSE ToolText(<<"Document edited successfully!",
                                         "Title", doc.val.Title, "ID", doc.val.ID>>))

\* the strings tried as the confirmation of a deletion
Confirmations == {"DELETE", "delete", "Delete", " DELETE", "DELETE ", ""}

\* the confirmation compared without regard to case
Confirmed_FoldCase(confirm) == confirm \in {"DELETE", "delete", "Delete"}

\* the deletion is confirmed by the exact string DELETE
Confirmed(confirm) == confirm = "DELETE"

\* a confirmed deletion that deletes before it looks at the outcome of the fetch
DeleteSteps_NoGate(documentID, r1, r2) ==
    LET doc    == GetDocumentResult(r1)
        err    == DeleteDocumentResult(r2)
        fetch  == RoundTrips(GetDocumentRequest(documentID), r1)
        delete == RoundTrips(DeleteDocumentRequest(documentID), r2)
    IN  IF doc.kind # "ok"
        THEN [sent |-> fetch \o delete, out |-> Failed("get document before deletion", doc)]
        ELSE IF err.kind # "ok"
        THEN [sent |-> fetch \o delete, out |-> Failed("delete document", err)]
        ELSE [sent |-> fetch \o delete,
              out  |-> ToolText(<<"Document deleted successfully!",
                                  "Deleted Document", doc.val.Title, "ID", doc.val.ID>>)]

\* a confirmed deletion: GetDocument, then DeleteDocument unless the fetch
\* returned an error; r1 and r2 are the outcomes of the two round trips
DeleteSteps(documentID, r1, r2) ==
    LET doc    == GetDocumentResult(r1)
        err    == DeleteDocumentResult(r2)
        fetch  == RoundTrips(GetDocumentRequest(documentID), r1)
        delete == RoundTrips(DeleteDocumentRequest(documentID), r2)
    IN  IF doc.kind # "ok"
        THEN [sent |-> fetch, out |-> Failed("get document before deletion", doc)]
        ELSE IF err.kind # "ok"
        THEN [sent |-> fetch \o delete, out |-> Failed("delete document", err)]
        ELSE [sent |-> fetch \o delete,
              out  |-> ToolText(<<"Document deleted successfully!",
                                  "Deleted Document", doc.val.Title, "ID", doc.val.ID>>)]

delete_document ==
    /\ call = NoTool
    /\ \E d \in StringArgs({"d1"}), c \in StringArgs(Confirmations),
          r1 \in Responses(ToolDocBodies), r2 \in Responses(OtherBodies) :
        LET args       == ("document_id" :> d) @@ ("confirm" :> c)
            documentID == RequireString(args, "document_id")
            confirm    == RequireString(args, "confirm")
            steps      == DeleteSteps(documentID.val, r1, r2)
        IN  IF ~documentID.ok
            THEN Handled("delete_document", args, <<>>, InvalidArgument("document_id"))
            ELSE IF ~confirm.ok
            THEN Handled("delete_document", args, <<>>, InvalidArgument("confirm"))
            ELSE IF ~Confirmed(confirm.val)
            THEN Handled("delete_document", args, <<>>,
                         ToolError(<<"Deletion cancelled. To delete the document, ",
                                     "you must set confirm='DELETE'">>))
            ELSE Handled("delete_document", args, steps.sent, steps.out)

get_recent_threads ==
    /\ call = NoTool
    /\ \E l \in LimitArgs, r \in Responses(ToolListBodies) :
        \E order \in MapOrders(r.body) :
            LET args    == "limit" :> l
                limit   == GetInt(args, "limit", DefaultLimit)
                threads == GetRecentThreadsResult(r, order)
            IN  Handled("get_recent_threads", args,
                        RoundTrips(GetRecentThreadsRequest(limit), r),
                        IF threads.kind # "ok" THEN Failed("get recent threads", threads)
                        ELSE IF Len(threads.val) = 0
                        THEN ToolText(<<"No recent threads found.">>)
                        ELSE ToolText(<<"Found ", Len(threads.val), " recent threads:",
                                        DocumentLines(threads.val)>>))

\* the error the current-user resource returns in place of contents
ResourceError(e) ==
    [isError |-> TRUE, text |-> <<"failed to get current user: ", ErrorString(e)>>]

\* the resource quip://user/current: GetCurrentUser, printed as JSON text with
\* created and updated under %d
currentUserResource ==
    /\ call = NoTool
    /\ \E r \in Responses(ToolUserBodies) :
        LET user == GetCurrentUserResult(r)
        IN  Handled("quip://user/current", EmptyObj,
                    RoundTrips(GetCurrentUserRequest, r),
                    IF user.kind # "ok" THEN ResourceError(user)
                    ELSE ToolText(<<"id", user.val.ID, "name", user.val.Name,
                                    "created", FormatInt(user.val.Created),
                                    "updated", FormatInt(user.val.Updated)>>))

NextTools ==
    \/ search_documents
    \/ get_document
    \/ create_document
    \/ get_user
    \/ get_document_comments
    \/ edit_document
    \/ delete_document
    \/ get_recent_threads
    \/ currentUserResource
    \/ ToolReturn

SpecTools == InitTools /\ [][NextTools]_vars

----------------------------------------------------------------------------
(* Concurrent callers of one client.  A call is three steps: the operation  *)
(* builds and sends its request, the response arrives, the operation turns  *)
(* the response into its result.  Steps of different callers interleave in  *)
(* any order.                                                               *)

\* an operation that remembers the method of its last request in the client
ClientAfter_Remembers(c, request) == [c EXCEPT !.token = request.method]

\* the Client struct after a step of an operation: the methods read c.token,
\* c.baseURL and c.httpClient and assign to none of them
ClientAfter(c, request) == c

ConcOps ==
    {[name |-> "GetDocument", args |-> <<"d1">>],
     [name |-> "GetCurrentUser", args |-> <<>>],
     [name |-> "DeleteDocument", args |-> <<"d1">>]}

ConcResponses ==
    {[fail |-> TRUE, status |-> 0, body |-> Absent, readFail |-> FALSE],
     [fail |-> FALSE, status |-> 200, readFail |-> FALSE,
      body |-> JObj(("id" :> JStr("d1")) @@ ("name" :> JStr("Ann")))],
     [fail |-> FALSE, status |-> 200, readFail |-> FALSE, body |-> JBad],
     [fail |-> FALSE, status |-> 200, readFail |-> TRUE, body |-> JBad],
     [fail |-> FALSE, status |-> 401, readFail |-> FALSE,
      body |-> JObj("error" :> JStr("Invalid token"))]}

OpRequest(o) ==
    CASE o.name = "GetDocument"    -> GetDocumentRequest(o.args[1])
      [] o.name = "GetCurrentUser" -> GetCurrentUserRequest
      [] o.name = "DeleteDocument" -> DeleteDocumentRequest(o.args[1])

OpResult(o, r) ==
    CASE o.name = "GetDocument"    -> GetDocumentResult(r)
      [] o.name = "GetCurrentUser" -> GetCurrentUserResult(r)
      [] o.name = "DeleteDocument" -> DeleteDocumentResult(r)

InitConc ==
    /\ NewClient
    /\ NoClientCall
    /\ NoFormat
    /\ NoToolCall
    /\ NoConc
    /\ NoText
    /\ NoConfig

\* caller c invokes an operation: makeRequest builds the request from the
\* client's fields and hands it to httpClient.Do
Invoke(c) ==
    /\ conc[c].pc = "idle"
    /\ \E o \in ConcOps :
        /\ conc' = [conc EXCEPT ![c] = [@ EXCEPT !.pc = "sent", !.op = o,
                                                 !.req = OpRequest(o), !.exchanges = @ + 1]]
        /\ client' = ClientAfter(client, OpRequest(o))
    /\ UNCHANGED notConcVars

\* the round trip of caller c ends
Arrive(c) ==
    /\ conc[c].pc = "sent"
    /\ \E r \in ConcResponses :
        conc' = [conc EXCEPT ![c] = [@ EXCEPT !.pc = "received", !.resp = r]]
    /\ UNCHANGED <<client, notConcVars>>

\* the operation of caller c checks the status, decodes and returns
Complete(c) ==
    /\ conc[c].pc = "received"
    /\ conc' = [conc EXCEPT ![c] = [@ EXCEPT !.pc = "done",
                                             !.ret = OpResult(conc[c].op, conc[c].resp)]]
    /\ client' = ClientAfter(client, conc[c].req)
    /\ UNCHANGED notConcVars

NextConc == \E c \in Callers : Invoke(c) \/ Arrive(c) \/ Complete(c)

SpecConc == InitConc /\ [][NextConc]_vars

----------------------------------------------------------------------------
(* Go strings as sequences of characters *)

\* the string of n characters ch
Rep(ch, n) == [i \in 1..n |-> ch]

\* the white space of unicode.IsSpace that the inputs use
White == {" ", "\t", "\n", "\r"}

\* strings.TrimSpace
RECURSIVE TrimLeft(_)
TrimLeft(str) == IF str # <<>> /\ Head(str) \in White THEN TrimLeft(Tail(str)) ELSE str

RECURSIVE TrimRight(_)
TrimRight(str) ==
    IF str # <<>> /\ str[Len(str)] \in White THEN TrimRight(SubSeq(str, 1, Len(str) - 1))
    ELSE str

TrimSpace(str) == TrimRight(TrimLeft(str))

----------------------------------------------------------------------------
(* The ConfigManager (package config) *)

\* plain YAML scalars that do not resolve to a string
NullWords  == {<<>>, <<"~">>, <<"n", "u", "l", "l">>}
OtherWords == {<<"t", "r", "u", "e">>, <<"1", "2">>}

\* a string that yaml.v3 can write as a plain scalar and read back as itself
PlainSafe(t) ==
    /\ t \notin NullWords \cup OtherWords
    /\ TrimSpace(t) = t
    /\ \A i \in DOMAIN t : t[i] \notin White \cup {":", "#", "\""}

\* yaml.Marshal(config): the scalar written for quip_api_token, quoted unless
\* the string is safe as a plain scalar
YAMLMarshal(t) == [quoted |-> ~PlainSafe(t), text |-> t]

\* yaml.Unmarshal into Config.QuipAPIToken: a quoted scalar is its content, a
\* plain scalar is its text without the white space around it, and a null
\* leaves the field empty
YAMLUnmarshal(d) ==
    IF d.quoted THEN d.text
    ELSE IF TrimSpace(d.text) \in NullWords THEN <<>>
    ELSE TrimSpace(d.text)

EnvTokens  == {<<>>, Rep("e", 3), Rep("e", MaxToken)}
FileTokens == {<<>>, Rep("f", 9), Rep("f", 10), Rep("f", MaxToken)}

\* the tokens Save is called with
SaveTokens ==
    FileTokens
    \cup {<<" ", "f", " ">>, <<"f", ":", " ", "#">>, <<"1", "2">>, <<"n", "u", "l", "l">>, <<"~">>}

\* the config file: missing; there but not readable; or its content, by what
\* the parsers make of it: YAML holding a token, JSON (not YAML) holding a
\* token, or neither
FileStates ==
    {MissingFile, [state |-> "unreadable", token |-> <<>>], [state |-> "garbage", token |-> <<>>]}
    \cup {[state |-> st, token |-> t] : st \in {"yaml", "json"}, t \in FileTokens}

\* loadFromFile with a missing file reported like a file that cannot be read
loadFromFile_MissingIsError(f) ==
    CASE f.state \in {"missing", "unreadable"} -> [err |-> "read", token |-> <<>>]
      [] f.state = "garbage"                   -> [err |-> "parse", token |-> <<>>]
      [] OTHER                                 -> [err |-> "none", token |-> f.token]

\* loadFromFile: the error, and the token left in the Config
loadFromFile(f) ==
    CASE f.state = "missing"    -> [err |-> "notexist", token |-> <<>>]
      [] f.state = "unreadable" -> [err |-> "read", token |-> <<>>]
      [] f.state = "garbage"    -> [err |-> "parse", token |-> <<>>]
      [] OTHER                  -> [err |-> "none", token |-> f.token]

\* Load with the token of the file preferred to the environment's
LoadResult_FilePreferred(f, e) ==
    LET loaded == loadFromFile(f)
    IN  IF loaded.err \notin {"none", "notexist"}
        THEN [op |-> "Load", err |-> TRUE, token |-> <<>>]
        ELSE [op |-> "Load", err |-> FALSE,
              token |-> IF loaded.token # <<>> THEN loaded.token ELSE e]

\* Load: the file first, then the environment over it
LoadResult(f, e) ==
    LET loaded == loadFromFile(f)
    IN  IF loaded.err \notin {"none", "notexist"}
        THEN [op |-> "Load", err |-> TRUE, token |-> <<>>]
        ELSE [op |-> "Load", err |-> FALSE,
              token |-> IF e # <<>> THEN e ELSE loaded.token]

\* the least length of a token that HasValidToken and SetupInteractive accept
MinTokenLen == 10

\* HasValidToken accepting only tokens longer than the least length
HasValidTokenResult_Longer(f, e) ==
    LET config == LoadResult(f, e)
    IN  IF config.err THEN FALSE
        ELSE config.token # <<>> /\ Len(config.token) > MinTokenLen

\* HasValidToken: Load, then the test of the token
HasValidTokenResult(f, e) ==
    LET config == LoadResult(f, e)
    IN  IF config.err THEN FALSE
        ELSE config.token # <<>> /\ Len(config.token) >= MinTokenLen

InitConfig ==
    /\ NewClient
    /\ NoClientCall
    /\ NoFormat
    /\ NoToolCall
    /\ NoConc
    /\ NoText
    /\ env \in EnvTokens
    /\ file \in FileStates
    /\ cfgOut = NoCfgOut
    /\ saved = NeverSaved

Load ==
    /\ cfgOut' = LoadResult(file, env)
    /\ UNCHANGED <<env, file, saved, notConfigVars>>

\* Save(config): MkdirAll, yaml.Marshal, os.WriteFile
\* how Save can end: written; failed before the file was touched (MkdirAll or
\* the open failed); failed after os.WriteFile had truncated the file.  A file
\* that cannot be read cannot be opened for writing either
SaveOutcomes(f) ==
    IF f.state = "unreadable" THEN {"untouched"}
    ELSE {"ok", "untouched", "emptied", "partial"}

\* the config file after Save(config) with the given outcome
FileAfterSave(f, t, outcome) ==
    CASE outcome = "ok"        -> [state |-> "yaml", token |-> YAMLUnmarshal(YAMLMarshal(t))]
      [] outcome = "untouched" -> f
      [] outcome = "emptied"   -> [state |-> "yaml", token |-> <<>>]
      [] outcome = "partial"   -> [state |-> "garbage", token |-> <<>>]

Save ==
    \E t \in SaveTokens, outcome \in SaveOutcomes(file) :
        /\ file' = FileAfterSave(file, t, outcome)
        /\ cfgOut' = [op |-> "Save", err |-> outcome # "ok", token |-> t]
        /\ saved' = IF outcome = "ok" THEN t ELSE saved
        /\ UNCHANGED <<env, notConfigVars>>

HasValidToken ==
    /\ cfgOut' = [op |-> "HasValidToken", valid |-> HasValidTokenResult(file, env)]
    /\ UNCHANGED <<env, file, saved, notConfigVars>>

\* readPassword: what the user entered, or a failure to read it
Entered ==
    {[err |-> TRUE, text |-> <<>>]} \cup
    {[err |-> FALSE, text |-> t] :
        t \in {<<>>, <<" ", "\t">>, Rep("f", 9), <<" ">> \o Rep("f", 9) \o <<"\r">>,
               Rep("f", MinTokenLen), <<" ">> \o Rep("f", MinTokenLen) \o <<" ">>,
               Rep("f", MaxToken)}}

\* SetupInteractive testing the length of the token as it was entered
SetupAccepts_Untrimmed(e) ==
    /\ ~e.err
    /\ TrimSpace(e.text) # <<>>
    /\ Len(e.text) >= MinTokenLen

\* SetupInteractive goes on to Save: the token was read, and after TrimSpace
\* it is not empty and not shorter than the least length
SetupAccepts(e) ==
    /\ ~e.err
    /\ TrimSpace(e.text) # <<>>
    /\ Len(TrimSpace(e.text)) >= MinTokenLen

SetupInteractive ==
    \E e \in Entered :
        IF SetupAccepts(e)
        THEN \E outcome \in SaveOutcomes(file) :
                /\ file' = FileAfterSave(file, TrimSpace(e.text), outcome)
                /\ cfgOut' = [op |-> "SetupInteractive", entered |-> e,
                              err |-> outcome # "ok"]
                /\ saved' = IF outcome = "ok" THEN TrimSpace(e.text) ELSE saved
                /\ UNCHANGED <<env, notConfigVars>>
        ELSE /\ cfgOut' = [op |-> "SetupInteractive", entered |-> e, err |-> TRUE]
             /\ UNCHANGED <<env, file, saved, notConfigVars>>

NextConfig == Load \/ Save \/ HasValidToken \/ SetupInteractive

SpecConfig == InitConfig /\ [][NextConfig]_vars

----------------------------------------------------------------------------
(* htmlToMarkdown: the clean-up of the converted markdown, line by line *)

\* longest markdown text
MaxText == 5

\* the characters of the markdown texts: a letter, a blank, a line break
TextChars == {"a", " ", "\n"}
Texts     == UNION {[1..n -> TextChars] : n \in 0..MaxText}

\* strings.Split(s, sep) for a separator of one character
RECURSIVE Split(_, _)
Split(s, sep) ==
    IF \A i \in DOMAIN s : s[i] # sep THEN <<s>>
    ELSE LET i == CHOOSE k \in DOMAIN s : s[k] = sep /\ \A j \in 1..(k - 1) : s[j] # sep
         IN  <<SubSeq(s, 1, i - 1)>> \o Split(SubSeq(s, i + 1, Len(s)), sep)

\* strings.Join(elems, sep)
RECURSIVE Join(_, _)
Join(elems, sep) ==
    IF Len(elems) = 0 THEN <<>>
    ELSE IF Len(elems) = 1 THEN elems[1]
    ELSE elems[1] \o <<sep>> \o Join(Tail(elems), sep)

\* the test of the loop with every empty line kept once a line has been kept
KeepLine_AfterFirst(trimmed, cleanLines) ==
    trimmed # <<>> \/ Len(cleanLines) > 0

\* the test of the loop: the line is kept if it is not empty, or if the line
\* kept last is not empty
KeepLine(trimmed, cleanLines) ==
    trimmed # <<>> \/ (Len(cleanLines) > 0 /\ cleanLines[Len(cleanLines)] # <<>>)

\* the loop over lines, from the lines still to visit and cleanLines so far
RECURSIVE CleanLines(_, _)
CleanLines(lines, cleanLines) ==
    IF lines = <<>> THEN cleanLines
    ELSE LET trimmed == TrimSpace(Head(lines))
         IN  CleanLines(Tail(lines),
                        IF KeepLine(trimmed, cleanLines) THEN Append(cleanLines, trimmed)
                        ELSE cleanLines)

\* "Remove excessive newlines": Split, the loop, Join
RemoveExcessiveNewlines(markdown) == Join(CleanLines(Split(markdown, "\n"), <<>>), "\n")

InitMarkdown ==
    /\ NewClient
    /\ NoClientCall
    /\ NoFormat
    /\ NoToolCall
    /\ NoConc
    /\ NoConfig
    /\ mdIn \in Texts
    /\ mdOut = NotDone
    /\ maskIn = <<>>
    /\ maskOut = NotDone

HtmlToMarkdown ==
    /\ mdOut' = [done |-> TRUE, text |-> RemoveExcessiveNewlines(mdIn)]
    /\ UNCHANGED notMarkdownVars

NextMarkdown == HtmlToMarkdown

SpecMarkdown == InitMarkdown /\ [][NextMarkdown]_vars

----------------------------------------------------------------------------
(* maskToken, as showCurrentConfig applies it to a token that is not empty *)

\* longest token shown
MaxMask == 12

MaskChars  == {"a", "*"}
MaskTokens == UNION {[1..n -> MaskChars] : n \in 1..MaxMask}

Stars == <<"*", "*", "*", "*">>

maskToken(token) ==
    IF Len(token) <= 8 THEN Stars
    ELSE SubSeq(token, 1, 4) \o Stars \o SubSeq(token, Len(token) - 3, Len(token))

InitMask ==
    /\ NewClient
    /\ NoClientCall
    /\ NoFormat
    /\ NoToolCall
    /\ NoConc
    /\ NoConfig
    /\ mdIn = <<>>
    /\ mdOut = NotDone
    /\ maskIn \in MaskTokens
    /\ maskOut = NotDone

MaskToken ==
    /\ maskOut' = [done |-> TRUE, text |-> maskToken(maskIn)]
    /\ UNCHANGED notMaskVars

NextMask == MaskToken

SpecMask == InitMask /\ [][NextMask]_vars

----------------------------------------------------------------------------
(* What the claims say of a response body, stated on the JSON itself *)

StrOrMissing(j) == j.k \in {"absent", "null", "str"}
StrOf(j)        == IF j.k = "str" THEN j.v ELSE ""

\* a JSON object that carries a Document: its members are strings where present
DocShaped(j) ==
    /\ j.k = "obj"
    /\ \A f \in {"id", "type", "title", "html"} : StrOrMissing(Member(j, f))

\* the Document such an object carries
DocOf(j) ==
    [ID |-> StrOf(Member(j, "id")), Type |-> StrOf(Member(j, "type")),
     Title |-> StrOf(Member(j, "title")), HTML |-> StrOf(Member(j, "html"))]

\* a {thread, html} wrapper: an object whose thread member carries a Document
WrapperShaped(j) ==
    /\ j.k = "obj"
    /\ DocShaped(Member(j, "thread"))
    /\ StrOrMissing(Member(j, "html"))

\* a wrapper whose thread has a non-empty id
ValidWrapper(j) == WrapperShaped(j) /\ StrOf(Member(Member(j, "thread"), "id")) # ""

\* the call in progress got a response with a 2xx status, body included
Got2xx(name) == op.name = name /\ ~resp.fail /\ ~resp.readFail /\ resp.status \in 200..299

----------------------------------------------------------------------------
(* C1 - C10 *)

\* C1: whenever GetDocument or EditDocument returns a Document without error,
\* the Document's id is not empty.
C1_ReturnedDocumentHasId ==
    (op.name \in {"GetDocument", "EditDocument"} /\ ret.kind = "ok") => ret.val.ID # ""

\* C2: GetDocument stops at the first valid candidate of its cascade.  A body
\* that is a {thread, html} wrapper with a non-empty thread.id yields the thread,
\* its html replaced by the sideband html when that is not empty and left as it
\* is otherwise, whatever else the body carries (a top-level id); any other body
\* is decoded as a bare Document.
C2_GetDocumentCascade ==
    Got2xx("GetDocument") =>
        LET b      == resp.body
            thread == Member(b, "thread")
            side   == StrOf(Member(b, "html"))
        IN  /\ ValidWrapper(b) =>
                /\ ret.kind = "ok"
                /\ ret.val = [DocOf(thread) EXCEPT !.HTML = IF side # "" THEN side ELSE @]
            /\ (~ValidWrapper(b) /\ DocShaped(b)) =>
                /\ ret.kind = "ok"
                /\ ret.val = DocOf(b)

C2_Witness ==
    /\ Got2xx("GetDocument")
    /\ ValidWrapper(resp.body)
    /\ StrOf(Member(resp.body, "id")) = "d2"
    /\ StrOf(Member(Member(resp.body, "thread"), "html")) = "h1"
    /\ StrOf(Member(resp.body, "html")) = "h2"
    /\ ret.kind = "ok" /\ ret.val.ID = "d1" /\ ret.val.HTML = "h2"

\* C3: CreateDocument accepts only a {thread, html} wrapper with a non-empty
\* thread.id; every other 2xx body is a decode error and no Document.
C3_CreateDocumentOnlyValidWrapper ==
    (Got2xx("CreateDocument") /\ ~ValidWrapper(resp.body)) =>
        (ret.kind = "decode" /\ ret.val = Nil)

\* C4: for a body that is a sequence of {thread: Document} wrappers (each
\* Document with its id), GetRecentThreads returns the wrapped Documents (ids
\* and titles), as many and in the same order.
C4_RecentThreadsFromWrapperSequence ==
    (/\ Got2xx("GetRecentThreads")
     /\ resp.body.k = "arr"
     /\ \A i \in DOMAIN resp.body.v : ValidWrapper(resp.body.v[i])) =>
        /\ ret.kind = "ok"
        /\ Len(ret.val) = Len(resp.body.v)
        /\ \A i \in DOMAIN resp.body.v :
            /\ ret.val[i].ID = DocOf(Member(resp.body.v[i], "thread")).ID
            /\ ret.val[i].Title = DocOf(Member(resp.body.v[i], "thread")).Title

\* C5: every Document of a list returned without error by GetRecentThreads or
\* SearchDocuments has a non-empty id.
C5_ListedDocumentsHaveIds ==
    /\ (op.name = "GetRecentThreads" /\ ret.kind = "ok") =>
            \A i \in DOMAIN ret.val : ret.val[i].ID # ""
    /\ (op.name = "SearchDocuments" /\ ret.kind = "ok") =>
            \A i \in DOMAIN ret.val.Documents : ret.val.Documents[i].ID # ""

\* C6: for a body that is a non-empty mapping from key to {thread, html}
\* wrapper (each thread with its id), GetRecentThreads returns exactly one
\* Document per entry, with the id and title of the entry's thread and with the
\* entry's sideband html where thread.html is empty.
C6_RecentThreadsFromMapping ==
    (/\ Got2xx("GetRecentThreads")
     /\ resp.body.k = "obj"
     /\ DOMAIN resp.body.v # {}
     /\ \A key \in DOMAIN resp.body.v : ValidWrapper(resp.body.v[key])) =>
        /\ ret.kind = "ok"
        /\ \E order \in Perms(DOMAIN resp.body.v) :
            /\ DOMAIN ret.val = DOMAIN order
            /\ \A i \in DOMAIN order :
                LET entry  == resp.body.v[order[i]]
                    thread == DocOf(Member(entry, "thread"))
                IN  /\ ret.val[i].ID = thread.ID
                    /\ ret.val[i].Title = thread.Title
                    /\ ret.val[i].HTML = IF thread.HTML = ""
                                         THEN StrOf(Member(entry, "html"))
                                         ELSE thread.HTML

\* C7: for a body that is a sequence of N {thread} wrappers, N >= 0,
\* SearchDocuments returns N Documents, the i-th the i-th entry's thread, and a
\* Users sequence that is empty and not nil.
C7_SearchKeepsOrder ==
    (/\ Got2xx("SearchDocuments")
     /\ resp.body.k = "arr"
     /\ \A i \in DOMAIN resp.body.v : WrapperShaped(resp.body.v[i])) =>
        /\ ret.kind = "ok"
        /\ Len(ret.val.Documents) = Len(resp.body.v)
        /\ \A i \in DOMAIN resp.body.v :
                ret.val.Documents[i] = DocOf(Member(resp.body.v[i], "thread"))
        /\ ~ret.val.Users.isNil
        /\ Len(ret.val.Users.items) = 0

C7_Witness ==
    /\ Got2xx("SearchDocuments")
    /\ resp.body.k = "arr"
    /\ Len(resp.body.v) = 2
    /\ \A i \in DOMAIN resp.body.v : ValidWrapper(resp.body.v[i])
    /\ ret.kind = "ok"
    /\ <<ret.val.Documents[1].ID, ret.val.Documents[2].ID>> = <<"d2", "d1">>

\* C8: for a body that is a bare sequence of Document objects, GetRecentThreads
\* returns as many Documents, the same (id, title, type) and in the same order.
C8_RecentThreadsFromBareSequence ==
    (/\ Got2xx("GetRecentThreads")
     /\ resp.body.k = "arr"
     /\ \A i \in DOMAIN resp.body.v : DocShaped(resp.body.v[i])) =>
        /\ ret.kind = "ok"
        /\ Len(ret.val) = Len(resp.body.v)
        /\ \A i \in DOMAIN resp.body.v :
            /\ ret.val[i].ID = StrOf(Member(resp.body.v[i], "id"))
            /\ ret.val[i].Title = StrOf(Member(resp.body.v[i], "title"))
            /\ ret.val[i].Type = StrOf(Member(resp.body.v[i], "type"))

C8_Witness ==
    /\ Got2xx("GetRecentThreads")
    /\ resp.body.k = "arr"
    /\ Len(resp.body.v) = 2
    /\ \A i \in DOMAIN resp.body.v : DocShaped(resp.body.v[i]) /\ Member(resp.body.v[i], "id").k = "str"
    /\ ret.kind = "ok"
    /\ <<ret.val[1].ID, ret.val[2].ID>> = <<"d2", "d1">>
    /\ <<ret.val[1].Type, ret.val[2].Type>> = <<"spreadsheet", "document">>

\* C9: the `location` form field EditDocument sends is "1" exactly when the
\* operation is the literal "PREPEND", and "0" for every other string.
C9_EditLocation ==
    op.name = "EditDocument" =>
        req.form["location"] = (IF op.args[3] = "PREPEND" THEN "1" ELSE "0")

C9_Witness ==
    /\ op.name = "EditDocument"
    /\ op.args[3] = "prepend"
    /\ req.form["location"] = "0"

\* C10: every response whose status is outside 200-299 is an API error, for the
\* operations over makeRequest and over makeFormRequest alike; only a 2xx status
\* hands the body on to the decoder.
C10_Non2xxIsAPIError ==
    (~Idle /\ ~resp.fail /\ resp.status \notin 200..299) => ret.kind = "api"

----------------------------------------------------------------------------
(* C11 - C13: the errors of the client *)

\* the call in progress got a response with a 4xx or 5xx status, body included
GotErrorStatus == ~Idle /\ ~resp.fail /\ ~resp.readFail /\ resp.status >= 400

\* C11: when the server answers with an error status (4xx, 5xx) and a body B,
\* the operation returns no entity and an error whose message is "API error ",
\* the status in decimal, ": " and B as it was received, not parsed.
C11_APIErrorCarriesStatusAndBody ==
    GotErrorStatus =>
        /\ ret.kind = "api"
        /\ ret.val = Nil
        /\ ErrorString(ret) = <<"API error ", resp.status, ": ", resp.body>>

C11_Witness ==
    /\ op.name = "GetCurrentUser"
    /\ GotErrorStatus
    /\ resp.status = 401
    /\ resp.body = JObj("error" :> JStr("Invalid token"))
    /\ ret.val = Nil
    /\ ErrorString(ret) = <<"API error ", 401, ": ", JObj("error" :> JStr("Invalid token"))>>

\* C12: a failure to read the body of a 2xx response is reported as a transport
\* error ("failed to make request", "failed to read response body"), never with
\* the form of a decode error ("failed to decode response").
C12_ReadFailureIsNotDecodeError ==
    (~Idle /\ ~resp.fail /\ resp.status \in 200..299 /\ resp.readFail) =>
        ret.kind # "decode"

\* C13: whenever an operation fails with a decode error, the error carries an
\* excerpt of the raw response body.
C13_DecodeErrorCarriesExcerpt ==
    (~Idle /\ ret.kind = "decode") =>
        /\ ret.body # Absent
        /\ ErrorString(ret)[Len(ErrorString(ret))] = ret.body

----------------------------------------------------------------------------
(* C18: formatTimestamp *)

\* the number a decimal string denotes
RECURSIVE ValueOfDigits(_)
ValueOfDigits(str) ==
    IF str = <<>> THEN 0
    ELSE 10 * ValueOfDigits(SubSeq(str, 1, Len(str) - 1))
         + (CHOOSE d \in 0..9 : DigitChars[d + 1] = str[Len(str)])

\* a decimal representation as strconv writes it: digits only, no leading zero,
\* a minus sign before a negative number only
IsDecimal(str) ==
    LET digits == IF str # <<>> /\ str[1] = "-" THEN Tail(str) ELSE str
    IN  /\ digits # <<>>
        /\ \A i \in DOMAIN digits : \E d \in 1..10 : DigitChars[d] = digits[i]
        /\ Len(digits) > 1 => digits[1] # "0"
        /\ (str[1] = "-") => digits # <<"0">>

Abs(n) == IF n < 0 THEN -n ELSE n

\* C18: formatTimestamp maps 0 to "Unknown" and every non-zero timestamp t to
\* the decimal representation of t / 1,000,000 with the fraction discarded
\* (toward zero); no non-zero timestamp is mapped to "Unknown".
C18_FormatTimestamp ==
    fmtOut # NotFormatted =>
        /\ fmtIn = 0 => fmtOut = Unknown
        /\ fmtIn # 0 =>
            /\ fmtOut # Unknown
            /\ IsDecimal(fmtOut)
            /\ LET negative == fmtOut[1] = "-"
                   q == ValueOfDigits(IF negative THEN Tail(fmtOut) ELSE fmtOut)
               IN  /\ q * MicrosPerSecond <= Abs(fmtIn)
                   /\ Abs(fmtIn) < (q + 1) * MicrosPerSecond
                   /\ negative => fmtIn < 0
                   /\ (fmtIn < 0 /\ q # 0) => negative

C18_Witness ==
    /\ fmtIn = 1640995200
    /\ fmtOut = <<"1", "6", "4", "0">>

----------------------------------------------------------------------------
(* C14 - C17: the tool handlers and the requests they issue *)

\* the arguments each tool requires to be strings
Required(tool) ==
    CASE tool = "search_documents"      -> {"query"}
      [] tool = "get_document"          -> {"document_id"}
      [] tool = "create_document"       -> {"title"}
      [] tool = "get_user"              -> {"user_id"}
      [] tool = "get_document_comments" -> {"document_id"}
      [] tool = "edit_document"         -> {"document_id", "content"}
      [] tool = "delete_document"       -> {"document_id", "confirm"}
      [] OTHER                          -> {}

\* a tool has been invoked and every argument it requires is a string
Invoked   == call # NoTool
ArgsValid == \A key \in Required(call.tool) : ArgOf(call.args, key).k = "str"

\* a confirmed invocation of delete_document
ConfirmedDelete ==
    /\ call.tool = "delete_document"
    /\ ArgsValid
    /\ call.args["confirm"] = JStr("DELETE")

\* the exchange's call of the client returned an error
FetchFailed(x)  == GetDocumentResult(x.resp).kind # "ok"
DeleteFailed(x) == DeleteDocumentResult(x.resp).kind # "ok"

IsFetch(x, id)  == x.req.method = "GET" /\ x.req.path = <<"/threads/", id>>
IsDelete(x, id) ==
    /\ x.req.method = "POST"
    /\ x.req.path = <<"/threads/delete">>
    /\ x.req.form["thread_id"] = id

\* C14: delete_document with a confirm string other than exactly "DELETE"
\* (another case, surrounding whitespace, empty) returns an error result and
\* issues no HTTP request, neither the fetch nor the delete.
C14_UnconfirmedDeleteSendsNothing ==
    (call.tool = "delete_document" /\ ArgsValid /\ call.args["confirm"] # JStr("DELETE")) =>
        /\ out.isError
        /\ sent = <<>>

C14_Witness ==
    /\ call.tool = "delete_document"
    /\ ArgsValid
    /\ call.args["confirm"] = JStr("delete")
    /\ out.isError
    /\ sent = <<>>

\* C15: in a confirmed delete_document the first request is the fetch
\* GET /threads/{id}; the delete POST /threads/delete comes second if at all;
\* when the fetch returns an error the delete is not issued; and success is
\* reported only when both calls returned without error.
C15_FetchBeforeDelete ==
    ConfirmedDelete =>
        LET id == call.args["document_id"].v
        IN  /\ Len(sent) \in {1, 2}
            /\ IsFetch(sent[1], id)
            /\ Len(sent) = 2 => IsDelete(sent[2], id)
            /\ FetchFailed(sent[1]) => Len(sent) = 1
            /\ ~out.isError =>
                /\ Len(sent) = 2
                /\ ~FetchFailed(sent[1])
                /\ ~DeleteFailed(sent[2])

C15_Witness ==
    /\ ConfirmedDelete
    /\ Len(sent) = 1
    /\ FetchFailed(sent[1])
    /\ sent[1].resp.status = 404
    /\ out.isError

C17_InvalidArgumentSendsNothing ==
    (Invoked /\ ~ArgsValid) =>
        /\ out.isError
        /\ sent = <<>>

C17_Witness ==
    /\ call.tool = "edit_document"
    /\ call.args["document_id"] = JStr("d1")
    /\ call.args["content"] = JNum
    /\ out.isError
    /\ sent = <<>>

----------------------------------------------------------------------------
(* C19: concurrent operations on one client *)

\* what each caller holds is its own: the request built from its operation and
\* the client, one exchange, and the result of its own response
OwnExchange(c) ==
    /\ conc[c].pc # "idle" =>
        /\ conc[c].req = OpRequest(conc[c].op)
        /\ conc[c].req.auth = <<"Bearer ", client.token>>
        /\ conc[c].exchanges = 1
    /\ conc[c].pc = "done" => conc[c].ret = OpResult(conc[c].op, conc[c].resp)

\* a step of one caller leaves the calls of the others as they are
OneCallerMoves ==
    \A c, d \in Callers : (conc'[c].pc # conc[c].pc /\ d # c) => conc'[d] = conc[d]

----------------------------------------------------------------------------
(* C20: ConfigManager.Load *)

----------------------------------------------------------------------------
(* C21 - C23: Save, Load and HasValidToken *)

\* C21: with QUIP_API_TOKEN unset, a Load after a Save returns the token of
\* the last Save that succeeded, for every token string.
C21_LoadReturnsLastSaved ==
    (cfgOut.op = "Load" /\ env = <<>> /\ saved # NeverSaved) =>
        /\ ~cfgOut.err
        /\ cfgOut.token = saved


\* the config file cannot be read, or parses neither as YAML nor as JSON
FileBroken == file.state \in {"unreadable", "garbage"}

\* C22: when the config file does not exist and QUIP_API_TOKEN is unset, Load
\* returns an empty token and no error; Load returns an error only when the
\* file exists but cannot be read or parses neither as YAML nor as JSON.
C22_LoadErrorOnlyForBrokenFile ==
    cfgOut.op = "Load" =>
        /\ (file.state = "missing" /\ env = <<>>) => (~cfgOut.err /\ cfgOut.token = <<>>)
        /\ cfgOut.err => FileBroken

C22_Witness ==
    /\ cfgOut.op = "Load"
    /\ file.state = "missing"
    /\ env = <<>>
    /\ ~cfgOut.err
    /\ cfgOut.token = <<>>

\* the token Load would hand out: the environment's if set, else the file's
EffectiveToken == IF env # <<>> THEN env ELSE file.token

\* C23: HasValidToken returns true exactly when Load succeeds and the
\* effective token (environment value if set, otherwise file value) has at
\* least 10 characters; false for an empty token, a shorter token, and when
\* Load fails.
C23_HasValidToken ==
    cfgOut.op = "HasValidToken" =>
        (cfgOut.valid <=> (~FileBroken /\ Len(EffectiveToken) >= 10))

C23_Witness ==
    /\ cfgOut.op = "HasValidToken"
    /\ env = <<>>
    /\ file.state = "yaml"
    /\ Len(file.token) = 10
    /\ cfgOut.valid

(***************************************************************************)
(* C28: SetupInteractive                                                   *)
(***************************************************************************)

\* the entered token, trimmed, is not empty and has at least 10 characters
EnteredIsValid(e) ==
    /\ ~e.err
    /\ TrimSpace(e.text) # <<>>
    /\ Len(TrimSpace(e.text)) >= 10

\* C28: SetupInteractive touches the config file only when the entered token,
\* trimmed of surrounding whitespace, is non-empty and at least 10 characters
\* long; a rejected token gives an error and leaves the file as it was; a
\* token it saves is the trimmed one and passes HasValidToken's length test.
C28_SetupSavesOnlyValidTokens ==
    [][cfgOut'.op = "SetupInteractive" =>
        /\ ~EnteredIsValid(cfgOut'.entered) => (cfgOut'.err /\ file' = file)
        /\ ~cfgOut'.err =>
              /\ file' = [state |-> "yaml", token |-> TrimSpace(cfgOut'.entered.text)]
              /\ file'.token # <<>>
              /\ Len(file'.token) >= MinTokenLen]_vars

C28_Witness ==
    /\ cfgOut.op = "SetupInteractive"
    /\ ~cfgOut.err
    /\ Len(cfgOut.entered.text) > Len(file.token)
    /\ file.token = TrimSpace(cfgOut.entered.text)

(***************************************************************************)
(* C24 - C26: errors and values on their way through the tools             *)
(***************************************************************************)

\* the last exchange of the invocation, and what the client operation that
\* made it returned to the handler
LastExchange == sent[Len(sent)]

LastResult ==
    LET r == LastExchange.resp
    IN  CASE call.tool = "search_documents"      -> SearchDocumentsResult(r)
          [] call.tool = "get_document"          -> GetDocumentResult(r)
          [] call.tool = "create_document"       -> CreateDocumentResult(r)
          [] call.tool = "get_user" ->
                IF call.args["user_id"] = JStr("current") THEN GetCurrentUserResult(r)
                ELSE GetUserResult(r)
          [] call.tool = "get_document_comments" -> GetDocumentCommentsResult(r)
          [] call.tool = "edit_document"         -> EditDocumentResult(r)
          [] call.tool = "delete_document" ->
                IF Len(sent) = 1 THEN GetDocumentResult(r) ELSE DeleteDocumentResult(r)
          [] call.tool = "get_recent_threads" ->
                GetRecentThreadsResult(r, CHOOSE order \in MapOrders(r.body) : TRUE)
          [] call.tool = "quip://user/current"   -> GetCurrentUserResult(r)

\* the round trip of the exchange ended in an error of the transport or the API
RoundTripFailed(x) == x.resp.fail \/ x.resp.status >= 400

UserShown ==
    /\ Invoked
    /\ call.tool \in {"get_user", "quip://user/current"}
    /\ sent # <<>>
    /\ LastResult.kind = "ok"

\* the texts reported for the user's created and updated fields
ShownCreated == out.text[6]
ShownUpdated == out.text[8]

\* C25: for a User whose created (or updated) field is a non-zero number of
\* seconds s, the get_user tool and the current-user resource report s for
\* that field.
C25_UserTimestampsInSeconds ==
    UserShown =>
        /\ LastResult.val.Created # 0 => ShownCreated = FormatInt(LastResult.val.Created)
        /\ LastResult.val.Updated # 0 => ShownUpdated = FormatInt(LastResult.val.Updated)

\* get_recent_threads was answered 200 with a body that could be read
RecentAnswered ==
    /\ Invoked
    /\ call.tool = "get_recent_threads"
    /\ ~LastExchange.resp.fail
    /\ LastExchange.resp.status = 200
    /\ ~LastExchange.resp.readFail

RecentBody == LastExchange.resp.body

\* the tool's result is the text "No recent threads found."
NoneFound == ~out.isError /\ out.text = <<"No recent threads found.">>

EmptyObject == RecentBody.k = "obj" /\ DOMAIN RecentBody.v = {}
EmptyArray  == RecentBody.k = "arr" /\ Len(RecentBody.v) = 0

\* the "unrecognized response format" decode error, carrying the body
Unrecognized ==
    /\ LastResult.kind = "decode"
    /\ LastResult.body = RecentBody
    /\ out.isError
    /\ out = Failed("get recent threads", LastResult)

\* GetRecentThreads returned an empty list and no error
EmptyList == LastResult.kind = "ok" /\ LastResult.val = <<>>

\* C26 as stated: the body {} gives the "unrecognized response format" decode
\* error, the body [] gives an empty list and no error, and [] is the only
\* body for which the tool reports "No recent threads found."
C26_EmptyListOnlyFromEmptyArray ==
    RecentAnswered =>
        /\ EmptyObject => Unrecognized
        /\ EmptyArray => (EmptyList /\ NoneFound)
        /\ NoneFound => EmptyArray

\* C26 amended: as above, but the tool reports "No recent threads found."
\* for the body [] and for the body null, and for no other body.
C26_EmptyListFromEmptyArrayOrNull ==
    RecentAnswered =>
        /\ EmptyObject => Unrecognized
        /\ EmptyArray => (EmptyList /\ NoneFound)
        /\ NoneFound <=> (EmptyArray \/ RecentBody.k = "null")

C26_Witness ==
    /\ RecentAnswered
    /\ RecentBody.k = "null"
    /\ EmptyList
    /\ NoneFound

(***************************************************************************)
(* C27: the line clean-up of htmlToMarkdown                                *)
(***************************************************************************)

\* the lines of a text; the empty text has no lines
Lines(text) == IF text = <<>> THEN <<>> ELSE Split(text, "\n")

OutLines == Lines(mdOut.text)

\* the lines that are not empty after trimming, trimmed, in their order
NonEmptyLines(lines) ==
    SelectSeq([i \in DOMAIN lines |-> TrimSpace(lines[i])], LAMBDA l : l # <<>>)

\* C27: in the output of the clean-up no line starts or ends with
\* whitespace, the first line is not empty, no two consecutive lines are both
\* empty, and the non-empty lines are the input's non-empty lines (trimmed),
\* in the input's order.
C27_CleanLines ==
    mdOut.done =>
        /\ \A i \in DOMAIN OutLines :
              OutLines[i] # <<>> =>
                  (OutLines[i][1] \notin White /\ OutLines[i][Len(OutLines[i])] \notin White)
        /\ OutLines # <<>> => OutLines[1] # <<>>
        /\ \A i \in 1..(Len(OutLines) - 1) : OutLines[i] # <<>> \/ OutLines[i + 1] # <<>>
        /\ NonEmptyLines(OutLines) = NonEmptyLines(Lines(mdIn))

C27_Witness ==
    /\ mdOut.done
    /\ mdIn = <<" ", "a", "\n", "\n", "a">>
    /\ mdOut.text = <<"a", "\n", "\n", "a">>

(***************************************************************************)
(* C30: maskToken                                                          *)
(***************************************************************************)

\* C30: for a token of at most 8 characters maskToken returns "****", for a
\* longer one its first 4 characters, "****" and its last 4 characters; what
\* it returns differs from the token for every token that is not empty.
C30_MaskNeverShowsToken ==
    maskOut.done =>
        /\ Len(maskIn) <= 8 => maskOut.text = <<"*", "*", "*", "*">>
        /\ Len(maskIn) > 8 =>
              maskOut.text = SubSeq(maskIn, 1, 4) \o <<"*", "*", "*", "*">>
                                 \o SubSeq(maskIn, Len(maskIn) - 3, Len(maskIn))
        /\ maskIn # <<>> => maskOut.text # maskIn

(***************************************************************************)
(* C29: closing the response body                                          *)
(***************************************************************************)

\* C29: the body of every response the client obtains is closed exactly
\* once: on a status of 400 or more by the transport, which hands the caller
\* an error and no response; otherwise by the operation, whatever it
\* returns, a decode or read failure included.  With no response (the
\* round trip failed) nothing is closed.
C29_BodyClosedOnce ==
    ~Idle =>
        /\ resp.fail => (closed.transport = 0 /\ closed.caller = 0)
        /\ ~resp.fail => closed.transport + closed.caller = 1
        /\ (~resp.fail /\ resp.status >= 400) =>
              (closed.transport = 1 /\ ret.kind = "api")
        /\ (~resp.fail /\ resp.status < 400) => closed.caller = 1

C29_Witness ==
    /\ ~Idle
    /\ ~resp.fail
    /\ resp.status = 200
    /\ ret.kind = "decode"
    /\ closed = [transport |-> 0, caller |-> 1]

====
